---- MODULE Spec2Model ----
(***************************************************************************)
(* MIND dashboard: the authentication gate (config/auth.py,                *)
(* utils/auth_handler.py), the entry script app.py and the four role       *)
(* pages, as one browser session driving Streamlit script runs.            *)
(*                                                                         *)
(* One action is one script run triggered by one widget event; a run that  *)
(* ends in st.rerun() includes the run it restarts.                        *)
(***************************************************************************)
EXTENDS Integers, Sequences, FiniteSets, TLC

VARIABLES
    session_state,  \* st.session_state: a dict, key -> value (absent keys are absent)
    view,           \* what the last script run rendered
    cache,          \* st.cache_data of run_query: the query labels with a stored result
    last_login,     \* the last call of login(email, password) and its return value
    last_op,        \* the widget event that triggered the last script run
    data,           \* the warehouse: the graded attempts and the web-vitals events
    run,            \* the content of the last page run: its inputs, queries and widgets
    process         \* the server process: its clock and its cached warehouse clients

vars == <<session_state, view, cache, last_login, last_op, data, run, process>>

\* the variables of a page's content, which the session actions leave alone
content_vars == <<data, run, process>>

(***************************************************************************)
(* Bounds of the model                                                     *)
(***************************************************************************)
\* the student list query returns 0..MaxStudents rows
MaxStudents == 2

(***************************************************************************)
(* Python values                                                           *)
(***************************************************************************)
\* None in a slot that otherwise holds a string
None == "None"
\* None in the user_data slot, which otherwise holds a USERS entry
NoneData == <<>>
\* {} (an empty dict)
EmptyDict == <<>>

\* d.get(k, default)
DictGet(d, k, default) == IF k \in DOMAIN d THEN d[k] ELSE default

\* d[k] = v  /  st.session_state.k = v
DictPut(d, k, v) == [x \in (DOMAIN d) \cup {k} |-> IF x = k THEN v ELSE d[x]]

\* a dict literal { k1: v1, k2: v2, ... }: a later item of the same key wins
DictOf(items) ==
    [k \in {items[i][1] : i \in DOMAIN items} |->
        items[CHOOSE i \in DOMAIN items :
                /\ items[i][1] = k
                /\ \A j \in DOMAIN items : items[j][1] = k => j <= i][2]]

\* the elements of a list
Range(s) == {s[i] : i \in DOMAIN s}

(***************************************************************************)
(* config/auth.py                                                          *)
(***************************************************************************)
ADMIN == "admin"
DEVELOPER == "developer"
FACULTY == "faculty"
STUDENT == "student"

\* bcrypt.hashpw(password, salt): a one-way digest that embeds its salt
hashpw(password, salt) == <<salt, password>>

\* bcrypt.checkpw(password, hashed): rehash with the salt of hashed and compare
checkpw(password, hashed) == hashpw(password, hashed[1]) = hashed

\* the items of the USERS literal, in source order; each bcrypt.gensalt() differs
USERS_ITEMS ==
    << <<"admin@mind.edu",
         [name |-> "System Administrator", role |-> ADMIN,
          password_hash |-> hashpw("mind2024", "salt1"),
          departments |-> <<"All">>, cohorts |-> <<"All">>]>>,
       <<"dev@mind.edu",
         [name |-> "Development Team", role |-> DEVELOPER,
          password_hash |-> hashpw("mind2024", "salt2"),
          departments |-> <<"IT">>, cohorts |-> <<"All">>]>>,
       <<"faculty@mind.edu",
         [name |-> "Dr. Sarah Johnson", role |-> FACULTY,
          password_hash |-> hashpw("mind2024", "salt3"),
          departments |-> <<"Computer Science", "Engineering">>,
          cohorts |-> <<"2024", "2025">>]>>,
       <<"student@mind.edu",
         [name |-> "John Smith", role |-> STUDENT,
          password_hash |-> hashpw("mind2024", "salt4"),
          departments |-> <<"Computer Science">>, cohorts |-> <<"2025">>,
          user_id |-> "550e8400-e29b-41d4-a716-446655440000"]>> >>

USERS == DictOf(USERS_ITEMS)

\* the ROLE_PERMISSIONS literal with the Student record left out
ROLE_PERMISSIONS_ITEMS_NoStudent ==
    << <<ADMIN,
         [pages |-> <<"Admin", "Developer", "Faculty", "Student">>,
          can_view_all_users |-> TRUE, can_modify_settings |-> TRUE,
          can_view_telemetry |-> TRUE, can_export_data |-> TRUE]>>,
       <<DEVELOPER,
         [pages |-> <<"Developer">>,
          can_view_all_users |-> FALSE, can_modify_settings |-> FALSE,
          can_view_telemetry |-> TRUE, can_export_data |-> TRUE]>>,
       <<FACULTY,
         [pages |-> <<"Faculty">>,
          can_view_all_users |-> FALSE, can_modify_settings |-> FALSE,
          can_view_telemetry |-> FALSE, can_export_data |-> TRUE]>> >>

\* the items of the ROLE_PERMISSIONS literal, in source order
ROLE_PERMISSIONS_ITEMS ==
    << <<ADMIN,
         [pages |-> <<"Admin", "Developer", "Faculty", "Student">>,
          can_view_all_users |-> TRUE, can_modify_settings |-> TRUE,
          can_view_telemetry |-> TRUE, can_export_data |-> TRUE]>>,
       <<DEVELOPER,
         [pages |-> <<"Developer">>,
          can_view_all_users |-> FALSE, can_modify_settings |-> FALSE,
          can_view_telemetry |-> TRUE, can_export_data |-> TRUE]>>,
       <<FACULTY,
         [pages |-> <<"Faculty">>,
          can_view_all_users |-> FALSE, can_modify_settings |-> FALSE,
          can_view_telemetry |-> FALSE, can_export_data |-> TRUE]>>,
       <<STUDENT,
         [pages |-> <<"Student">>,
          can_view_all_users |-> FALSE, can_modify_settings |-> FALSE,
          can_view_telemetry |-> FALSE, can_export_data |-> FALSE]>> >>

ROLE_PERMISSIONS == DictOf(ROLE_PERMISSIONS_ITEMS)

get_user_permissions(role) == DictGet(ROLE_PERMISSIONS, role, EmptyDict)

\* a lookup that falls back to the Admin record for a role without a record
can_access_page_AdminDefault(role, page) ==
    page \in Range(DictGet(DictGet(ROLE_PERMISSIONS, role, ROLE_PERMISSIONS[ADMIN]),
                           "pages", <<>>))

\* a lookup that only checks that the role has a record
can_access_page_AnyRecord(role, page) == role \in DOMAIN ROLE_PERMISSIONS

can_access_page(role, page) ==
    LET permissions == get_user_permissions(role)
    IN  page \in Range(DictGet(permissions, "pages", <<>>))

(***************************************************************************)
(* utils/auth_handler.py                                                   *)
(***************************************************************************)
\* st.session_state.get(key, default)
Get(ss, key, default) == DictGet(ss, key, default)

\* if key not in st.session_state: st.session_state.key = value
SetDefault(ss, key, value) == IF key \in DOMAIN ss THEN ss ELSE DictPut(ss, key, value)

\* a variant that assigns the five keys on every run, present or not
initialize_session_state_Reset(ss) ==
    DictPut(DictPut(DictPut(DictPut(DictPut(ss,
        "authenticated", FALSE), "user_email", None), "user_name", None),
        "user_role", None), "user_data", NoneData)

initialize_session_state(ss) ==
    SetDefault(SetDefault(SetDefault(SetDefault(SetDefault(ss,
        "authenticated", FALSE), "user_email", None), "user_name", None),
        "user_role", None), "user_data", NoneData)

\* a variant that checks an unknown email against the first entry of USERS
verify_password_DefaultUser(email, password) ==
    LET user == DictGet(USERS, email, USERS["admin@mind.edu"])
    IN  checkpw(password, user.password_hash)

verify_password(email, password) ==
    IF email \notin DOMAIN USERS
    THEN FALSE
    ELSE LET user == USERS[email]
         IN  checkpw(password, user.password_hash)

\* a variant that remembers the email of a known account before it checks the secret
login_RemembersEmail(ss, email, password) ==
    IF verify_password(email, password)
    THEN LET user == USERS[email]
         IN  [ret |-> TRUE,
              ss  |-> DictPut(DictPut(DictPut(DictPut(DictPut(ss,
                        "authenticated", TRUE), "user_email", email),
                        "user_name", user.name), "user_role", user.role),
                        "user_data", user)]
    ELSE [ret |-> FALSE,
          ss  |-> IF email \in DOMAIN USERS THEN DictPut(ss, "user_email", email) ELSE ss]

\* a variant that binds the display name and role of the first entry of USERS
login_WrongEntry(ss, email, password) ==
    IF verify_password(email, password)
    THEN LET user == USERS[email]
             first == USERS_ITEMS[1][2]
         IN  [ret |-> TRUE,
              ss  |-> DictPut(DictPut(DictPut(DictPut(DictPut(ss,
                        "authenticated", TRUE), "user_email", email),
                        "user_name", first.name), "user_role", first.role),
                        "user_data", user)]
    ELSE [ret |-> FALSE, ss |-> ss]

\* login returns its value and the session it leaves
login(ss, email, password) ==
    IF verify_password(email, password)
    THEN LET user == USERS[email]
         IN  [ret |-> TRUE,
              ss  |-> DictPut(DictPut(DictPut(DictPut(DictPut(ss,
                        "authenticated", TRUE), "user_email", email),
                        "user_name", user.name), "user_role", user.role),
                        "user_data", user)]
    ELSE [ret |-> FALSE, ss |-> ss]

\* a variant that flips the flag instead of clearing it
logout_Toggle(ss) ==
    DictPut(DictPut(DictPut(DictPut(DictPut(ss,
        "authenticated", ~Get(ss, "authenticated", FALSE)), "user_email", None),
        "user_name", None), "user_role", None), "user_data", NoneData)

logout(ss) ==
    DictPut(DictPut(DictPut(DictPut(DictPut(ss,
        "authenticated", FALSE), "user_email", None), "user_name", None),
        "user_role", None), "user_data", NoneData)

\* a variant that warns and goes on (no st.stop())
require_authentication_NoStop(ss) == TRUE

\* TRUE: the run goes on; FALSE: st.warning(...) and st.stop()
require_authentication(ss) == Get(ss, "authenticated", FALSE)

get_current_user(ss) == Get(ss, "user_data", NoneData)

(***************************************************************************)
(* Script runs: app.py and pages/*.py                                      *)
(***************************************************************************)
Pages == {"Admin", "Developer", "Faculty", "Student"}

\* pages that keep a theme in the session (Developer 55-70, Student 53-68)
ThemedPages == {"Developer", "Student"}

\* a query label: <<script, widget, value written into the SQL text>>
\* the queries a page issues on every run that reaches its content
PageQueries(p) ==
    CASE p = "Admin"     -> {<<"Admin", "Total Users", None>>}
      [] p = "Developer" -> {<<"Developer", "Total Requests", None>>}
      [] p = "Faculty"   -> {<<"Faculty", "departments", None>>,
                             <<"Faculty", "Total Students", None>>}
      [] p = "Student"   -> {<<"Student", "students", None>>}

\* the user_id of row i of the student list
StudentId(i) == IF i = 1 THEN "stu1" ELSE IF i = 2 THEN "stu2" ELSE "stu3"

NoView ==
    [script |-> None, outcome |-> None, message |-> None, queries |-> {},
     submitted |-> {}, nav |-> {}, trace |-> None, student |-> None,
     sidebar |-> FALSE]

\* app.py, lines 107-204, with no widget event
app(ss0) ==
    LET ss == initialize_session_state(ss0)
    IN  IF ~Get(ss, "authenticated", FALSE)
        THEN \* show_login_page()
             [ss   |-> SetDefault(ss, "theme", "dark"),
              view |-> [NoView EXCEPT !.script = "app", !.outcome = "login_page"]]
        ELSE \* show_user_info_sidebar(), welcome, quick navigation
             LET user_role == Get(ss, "user_role", "user")
             IN  [ss   |-> ss,
                  view |-> [NoView EXCEPT !.script = "app", !.outcome = "home",
                                          !.sidebar = TRUE,
                                          !.nav = {p \in Pages : can_access_page(user_role, p)}]]

\* a gate whose role check reports the rejection and goes on (no st.stop())
PageGate_NoStop(ss, p) ==
    IF ~require_authentication(ss) THEN "login_required" ELSE "content"

\* the gate at the head of every role page
PageGate(ss, p) ==
    IF ~require_authentication(ss)
    THEN "login_required"
    ELSE LET user == get_current_user(ss)
         IN  IF ~can_access_page(user.role, p) THEN "access_denied" ELSE "content"

\* a role page with no widget event: rows = the length of the student list the
\* warehouse returns, sel = the row the student selector holds (Student page only)
page(ss0, c, p, rows, sel) ==
    LET gate == PageGate(ss0, p)
    IN  IF gate = "login_required"
        THEN [ss |-> ss0, cache |-> c,
              view |-> [NoView EXCEPT !.script = p, !.outcome = gate,
                                      !.message = "Please login to access this page"]]
        ELSE IF gate = "access_denied"
        THEN [ss |-> ss0, cache |-> c,
              view |-> [NoView EXCEPT !.script = p, !.outcome = gate,
                                      !.message = "Access Denied"]]
        ELSE LET ss == IF p \in ThemedPages THEN SetDefault(ss0, "theme", "dark") ELSE ss0
                 traced == p = "Developer" /\ "trace_lookup" \in DOMAIN ss
                 nodata == p = "Student" /\ rows = 0
                 qs == PageQueries(p)
                       \cup (IF traced
                             THEN {<<"Developer", "Trace Debugger", ss["trace_lookup"]>>}
                             ELSE {})
                       \cup (IF p = "Student" /\ rows > 0
                             THEN {<<"Student", "my_stats", StudentId(sel)>>}
                             ELSE {})
             IN  [ss |-> ss, cache |-> c \cup qs,
                  view |-> [NoView EXCEPT
                              !.script = p,
                              !.outcome = IF nodata THEN "no_student_data" ELSE "content",
                              !.message = IF nodata THEN "No student data available" ELSE None,
                              !.queries = qs,
                              !.submitted = qs \ c,
                              !.trace = IF traced THEN ss["trace_lookup"] ELSE None,
                              !.student = IF p = "Student" /\ rows > 0
                                          THEN StudentId(sel) ELSE None,
                              !.sidebar = TRUE]]

\* the script the browser shows, run again from the top (st.rerun())
rerun(ss, c, script, rows, sel) ==
    IF script = "app"
    THEN LET r == app(ss) IN [ss |-> r.ss, cache |-> c, view |-> r.view]
    ELSE page(ss, c, script, rows, sel)

\* a variant that tells an unknown email from a wrong secret
login_error_TellsApart(email) ==
    IF email \in DOMAIN USERS THEN "Wrong password" ELSE "Unknown email"

\* st.error(...) of the login form when login(email, password) is False
login_error(email) == "Invalid email or password"

\* show_user_info_sidebar(): the Logout button exists only for an authenticated
\* session; clicked = the run was triggered by that button
show_user_info_sidebar(ss, clicked) ==
    IF Get(ss, "authenticated", FALSE) /\ clicked THEN logout(ss) ELSE ss

(***************************************************************************)
(* Inputs                                                                  *)
(***************************************************************************)
EmailInputs ==
    {"admin@mind.edu", "dev@mind.edu", "faculty@mind.edu", "student@mind.edu",
     "nobody@mind.edu", ""}

PasswordInputs == {"mind2024", "wrong", ""}

TraceInputs == {"", "trace-1", "trace-2"}

\* role names a caller may pass: the four of UserRole, their capitalised
\* spellings, None and a role without a record
RoleInputs ==
    {ADMIN, DEVELOPER, FACULTY, STUDENT, "Admin", "Developer", "Faculty", "Student",
     None, "user", "guest"}

PageInputs == Pages \cup {"Settings", "admin", ""}

\* what the student list and the student selector can hold in one run of page p
RowSel(p) ==
    IF p = "Student"
    THEN {<<0, 1>>} \cup {rs \in (1..MaxStudents) \X (1..MaxStudents) : rs[2] <= rs[1]}
    ELSE {<<0, 1>>}

NoLogin == [called |-> FALSE, email |-> None, password |-> None, ret |-> FALSE]

(***************************************************************************)
(* State machine                                                           *)
(***************************************************************************)
\* a warehouse without rows, and the content before any page has run
NoData == [grades |-> <<>>, vitals |-> <<>>]

NoRun == [script |-> None]

\* a process that has just started: no client has been asked for
NoProcess == [now |-> 0, clients |-> EmptyDict, constructed |-> 0, reachable |-> TRUE]

Init ==
    /\ session_state = EmptyDict
    /\ view = NoView
    /\ cache = {}
    /\ last_login = NoLogin
    /\ last_op = "start"
    /\ data = NoData
    /\ run = NoRun
    /\ process = NoProcess

\* the browser opens or reloads the entry script
OpenApp ==
    LET r == app(session_state)
    IN  /\ session_state' = r.ss
        /\ view' = r.view
        /\ last_op' = "open_app"
        /\ UNCHANGED content_vars
        /\ UNCHANGED <<cache, last_login>>

\* the login form is submitted (show_login_page, lines 204-214)
LoginSubmit(email, password) ==
    /\ view.script = "app" /\ view.outcome = "login_page"
    /\ LET before == app(session_state)
       IN  IF before.view.outcome # "login_page"
           THEN /\ session_state' = before.ss
                /\ view' = before.view
                /\ UNCHANGED last_login
           ELSE LET r == login(before.ss, email, password)
                IN  /\ last_login' = [called |-> TRUE, email |-> email,
                                      password |-> password, ret |-> r.ret]
                    /\ IF r.ret
                       THEN \* st.success(...); st.rerun()
                            LET again == app(r.ss)
                            IN  session_state' = again.ss /\ view' = again.view
                       ELSE /\ session_state' = r.ss
                            /\ view' = [before.view EXCEPT
                                          !.message = login_error(email)]
    /\ last_op' = "login"
    /\ UNCHANGED content_vars
    /\ UNCHANGED cache

\* the theme button of the login page (show_login_page, lines 117-127)
LoginThemeToggle ==
    /\ view.script = "app" /\ view.outcome = "login_page"
    /\ LET before == app(session_state)
           flipped == DictPut(before.ss, "theme",
                              IF before.ss["theme"] = "dark" THEN "light" ELSE "dark")
           again == app(flipped)
       IN  IF before.view.outcome # "login_page"
           THEN session_state' = before.ss /\ view' = before.view
           ELSE session_state' = again.ss /\ view' = again.view
    /\ last_op' = "theme_toggle"
    /\ UNCHANGED content_vars
    /\ UNCHANGED <<cache, last_login>>

\* a quick-navigation button of the home screen (app.py, lines 173-195)
HomeNav(p) ==
    /\ view.script = "app" /\ view.outcome = "home"
    /\ p \in view.nav
    /\ \E rs \in RowSel(p) :
         LET before == app(session_state)
             user_role == Get(before.ss, "user_role", "user")
             r == IF before.view.outcome = "home" /\ can_access_page(user_role, p)
                  THEN page(before.ss, cache, p, rs[1], rs[2])
                  ELSE [ss |-> before.ss, cache |-> cache, view |-> before.view]
         IN  /\ session_state' = r.ss
             /\ cache' = r.cache
             /\ view' = r.view
    /\ last_op' = "switch_page"
    /\ UNCHANGED content_vars
    /\ UNCHANGED last_login

\* a role page is opened from the page list or by its URL, or runs again
\* after a filter widget changed
OpenPage(p) ==
    /\ \E rs \in RowSel(p) :
         LET r == page(session_state, cache, p, rs[1], rs[2])
         IN  /\ session_state' = r.ss
             /\ cache' = r.cache
             /\ view' = r.view
    /\ last_op' = "open_page"
    /\ UNCHANGED content_vars
    /\ UNCHANGED last_login

\* the Logout button of the sidebar: logout(); st.rerun()
Logout ==
    /\ view.sidebar
    /\ \E rs \in RowSel(view.script) :
         LET script == view.script
             reached == IF script = "app"
                        THEN initialize_session_state(session_state)
                        ELSE IF PageGate(session_state, script) = "content"
                             THEN IF script \in ThemedPages
                                  THEN SetDefault(session_state, "theme", "dark")
                                  ELSE session_state
                             ELSE session_state
             gated == script # "app" /\ PageGate(session_state, script) # "content"
             after == IF gated THEN reached ELSE show_user_info_sidebar(reached, TRUE)
             r == rerun(after, cache, script, rs[1], rs[2])
         IN  /\ session_state' = r.ss
             /\ cache' = r.cache
             /\ view' = r.view
    /\ last_op' = "logout"
    /\ UNCHANGED content_vars
    /\ UNCHANGED last_login

\* the theme button of the Developer and Student pages: st.rerun()
PageThemeToggle ==
    /\ view.script \in ThemedPages
    /\ view.outcome \in {"content", "no_student_data"}
    /\ \E rs \in RowSel(view.script) :
         LET script == view.script
             passed == PageGate(session_state, script) = "content"
             themed == SetDefault(session_state, "theme", "dark")
             flipped == DictPut(themed, "theme",
                                IF themed["theme"] = "dark" THEN "light" ELSE "dark")
             r == page(IF passed THEN flipped ELSE session_state, cache, script,
                       rs[1], rs[2])
         IN  /\ session_state' = r.ss
             /\ cache' = r.cache
             /\ view' = r.view
    /\ last_op' = "theme_toggle"
    /\ UNCHANGED content_vars
    /\ UNCHANGED last_login

\* the Lookup Trace button of the Developer page (lines 244-246)
LookupTrace(trace_id) ==
    /\ view.script = "Developer" /\ view.outcome = "content"
    /\ LET passed == PageGate(session_state, "Developer") = "content"
           stored == IF passed /\ trace_id # ""
                     THEN DictPut(session_state, "trace_lookup", trace_id)
                     ELSE session_state
           r == page(stored, cache, "Developer", 0, 1)
       IN  /\ session_state' = r.ss
           /\ cache' = r.cache
           /\ view' = r.view
    /\ last_op' = "lookup_trace"
    /\ UNCHANGED content_vars
    /\ UNCHANGED last_login

\* the Clear Cache button of the Admin page (lines 970-972)
ClearCache ==
    /\ view.script = "Admin" /\ view.outcome = "content"
    /\ LET r == page(session_state, cache, "Admin", 0, 1)
       IN  /\ session_state' = r.ss
           /\ IF r.view.outcome = "content"
              THEN /\ cache' = {}
                   /\ view' = [r.view EXCEPT !.message = "Cache cleared successfully!"]
              ELSE /\ cache' = r.cache
                   /\ view' = r.view
    /\ last_op' = "clear_cache"
    /\ UNCHANGED content_vars
    /\ UNCHANGED last_login

Next ==
    \/ OpenApp
    \/ \E email \in EmailInputs, password \in PasswordInputs : LoginSubmit(email, password)
    \/ LoginThemeToggle
    \/ \E p \in Pages : HomeNav(p)
    \/ \E p \in Pages : OpenPage(p)
    \/ Logout
    \/ PageThemeToggle
    \/ \E trace_id \in TraceInputs : LookupTrace(trace_id)
    \/ ClearCache

Spec == Init /\ [][Next]_vars

(***************************************************************************)
(* Properties                                                              *)
(***************************************************************************)
Authenticated(ss) == Get(ss, "authenticated", FALSE)

\* the identity a session is bound to: email, display name, role, USERS entry
Identity(ss) ==
    <<Get(ss, "user_email", None), Get(ss, "user_name", None),
      Get(ss, "user_role", None), Get(ss, "user_data", NoneData)>>

Anonymous == <<None, None, None, NoneData>>

\* the page is in the allowed-page set of the permission record of the role
Listed(role, p) ==
    /\ role \in DOMAIN ROLE_PERMISSIONS
    /\ p \in Range(ROLE_PERMISSIONS[role].pages)

\* the run rendered a rejection and nothing after it
Halted ==
    /\ view.outcome \in {"login_required", "access_denied"}
    /\ view.message # None
    /\ view.queries = {} /\ view.submitted = {}
    /\ ~view.sidebar /\ view.trace = None /\ view.student = None

\* C1: a run of a role page by a session that is not authenticated, or whose
\* role's permission record does not list the page, shows a rejection and
\* halts: it issues no query and renders no page content.
C1_GateFailsClosed ==
    view.script \in Pages =>
        ((~Authenticated(session_state)
          \/ ~Listed(Get(session_state, "user_role", None), view.script)) => Halted)

C1_Witness ==
    /\ view.script = "Admin"
    /\ Authenticated(session_state)
    /\ Get(session_state, "user_role", None) = FACULTY
    /\ view.outcome = "access_denied"

\* C2: the authenticated flag and the bound identity change only in a step
\* that is a successful login (Anonymous to Authenticated) or a logout
\* (Authenticated to Anonymous); no other operation changes them.
C2_OnlyLoginAndLogout ==
    [][(\/ Authenticated(session_state') # Authenticated(session_state)
        \/ Identity(session_state') # Identity(session_state))
       => \/ /\ last_op' = "login" /\ last_login'.called /\ last_login'.ret
             /\ ~Authenticated(session_state) /\ Authenticated(session_state')
          \/ /\ last_op' = "logout"
             /\ Authenticated(session_state) /\ ~Authenticated(session_state')]_vars

\* a failed login, a page run, a theme toggle, a query and a cache clear have
\* all happened in an authenticated session that holds a stored trace id
C2_Witness ==
    /\ Authenticated(session_state)
    /\ last_op = "clear_cache"
    /\ last_login.called
    /\ "trace_lookup" \in DOMAIN session_state
    /\ Get(session_state, "theme", "dark") = "light"

\* C3: authenticated is true exactly when the session is bound to one entry
\* of USERS, the one the last successful login matched, and user_email,
\* user_name, user_role and user_data all come from it; otherwise all four
\* are None.
C3_BoundIdentity ==
    IF Authenticated(session_state)
    THEN /\ last_login.called /\ last_login.ret
         /\ last_login.email \in DOMAIN USERS
         /\ Identity(session_state) =
                <<last_login.email, USERS[last_login.email].name,
                  USERS[last_login.email].role, USERS[last_login.email]>>
    ELSE Identity(session_state) = Anonymous

C3_Witness ==
    /\ Authenticated(session_state)
    /\ Get(session_state, "user_email", None) = "student@mind.edu"
    /\ last_op = "login"

\* C4: verify_password is false for every email that is no key of USERS, and
\* for a key it is true only for the secret the entry's hash was made from;
\* login returns that value.
C4_VerifyPassword ==
    /\ \A email \in EmailInputs, password \in PasswordInputs :
         /\ email \notin DOMAIN USERS => ~verify_password(email, password)
         /\ verify_password(email, password) =>
              /\ email \in DOMAIN USERS
              /\ USERS[email].password_hash =
                     hashpw(password, USERS[email].password_hash[1])
              /\ password = "mind2024"
    /\ last_login.called =>
         /\ last_login.email \notin DOMAIN USERS => ~last_login.ret
         /\ last_login.ret =>
              /\ last_login.email \in DOMAIN USERS
              /\ last_login.password = "mind2024"

C4_Witness ==
    /\ last_login.called
    /\ last_login.email = "nobody@mind.edu"
    /\ last_login.password = "mind2024"
    /\ ~last_login.ret

\* C5: a failed login looks the same whether the email is unknown or the
\* secret is wrong: it returns FALSE, shows "Invalid email or password" on
\* the login page and leaves the session as it was.
C5_FailedLoginsAlike ==
    [][(last_op' = "login" /\ last_login'.called /\ ~last_login'.ret)
       => /\ session_state' = session_state
          /\ view'.script = "app" /\ view'.outcome = "login_page"
          /\ view'.message = "Invalid email or password"
          /\ view' = [view EXCEPT !.message = "Invalid email or password"]
          /\ cache' = cache]_vars

\* a wrong secret for a known email was rejected
C5_Witness ==
    /\ last_op = "login"
    /\ last_login.called /\ ~last_login.ret
    /\ last_login.email = "admin@mind.edu"
    /\ view.message = "Invalid email or password"

\* the items of ROLE_PERMISSIONS whose key is role
RecordsOf(role) ==
    {i \in DOMAIN ROLE_PERMISSIONS_ITEMS : ROLE_PERMISSIONS_ITEMS[i][1] = role}

\* C6: can_access_page(role, page) is true exactly when the page is in the
\* allowed-page set of the role's permission record and false for a role
\* without a record; the home screen and the page gates show that answer.
C6_CanAccessPage ==
    /\ \A role \in RoleInputs, p \in PageInputs :
         can_access_page(role, p) = Listed(role, p)
    /\ view.outcome = "home" =>
         view.nav = {p \in Pages : Listed(Get(session_state, "user_role", "user"), p)}
    /\ (view.script \in Pages /\ Authenticated(session_state)) =>
         ((view.outcome = "access_denied")
            = ~Listed(Get(session_state, "user_role", None), view.script))

C6_Witness ==
    /\ view.script = "app" /\ view.outcome = "home"
    /\ Get(session_state, "user_role", None) = DEVELOPER
    /\ view.nav = {"Developer"}

\* C7: every role of an entry of USERS has exactly one permission record,
\* the Admin record lists every page another record lists, and the role a
\* session is bound to has exactly one record.
C7_PermissionRecords ==
    /\ \A email \in DOMAIN USERS : Cardinality(RecordsOf(USERS[email].role)) = 1
    /\ \A role \in DOMAIN ROLE_PERMISSIONS :
         Range(ROLE_PERMISSIONS[role].pages) \subseteq Range(ROLE_PERMISSIONS[ADMIN].pages)
    /\ Authenticated(session_state) =>
         Cardinality(RecordsOf(Get(session_state, "user_role", None))) = 1

C7_Witness ==
    /\ Authenticated(session_state)
    /\ Get(session_state, "user_role", None) = STUDENT
    /\ view.script = "Student" /\ view.outcome = "content"

\* the login form was last submitted with faculty@mind.edu and mind2024
FacultyLogin ==
    /\ last_op = "login"
    /\ last_login.called
    /\ last_login.email = "faculty@mind.edu"
    /\ last_login.password = "mind2024"

\* C8 (as stated): after login with faculty@mind.edu / mind2024 the session
\* is authenticated with role 'Faculty', can_access('Faculty', 'Faculty') is
\* true and can_access('Faculty', 'Admin') is false.
C8_AsStated ==
    FacultyLogin =>
        /\ last_login.ret
        /\ Authenticated(session_state)
        /\ Get(session_state, "user_role", None) = "Faculty"
        /\ can_access_page("Faculty", "Faculty")
        /\ ~can_access_page("Faculty", "Admin")

\* C8 (amended): after login with faculty@mind.edu / mind2024 the session is
\* authenticated with role 'faculty' (UserRole.FACULTY, lower case),
\* can_access_page('faculty', 'Faculty') is true and
\* can_access_page('faculty', 'Admin') is false.
C8_FacultyScenario ==
    FacultyLogin =>
        /\ last_login.ret
        /\ Authenticated(session_state)
        /\ Get(session_state, "user_role", None) = "faculty"
        /\ can_access_page("faculty", "Faculty")
        /\ ~can_access_page("faculty", "Admin")
        /\ view.outcome = "home" /\ view.nav = {"Faculty"}

C8_Witness ==
    /\ FacultyLogin
    /\ Get(session_state, "user_role", None) = FACULTY
    /\ view.outcome = "home"

\* C9: after logout the session keeps neither the bound identity nor filter
\* state set before the logout: the stored trace-lookup id is cleared.
C9_LogoutClearsFilters ==
    last_op = "logout" =>
        /\ ~Authenticated(session_state)
        /\ Identity(session_state) = Anonymous
        /\ "trace_lookup" \notin DOMAIN session_state

\* C10: logout is idempotent on every session state: a second logout leaves
\* what the first left, and a logout always leaves the session Anonymous,
\* also when it already was (the Logout button included).
C10_LogoutIdempotent ==
    /\ logout(logout(session_state)) = logout(session_state)
    /\ ~Authenticated(logout(session_state))
    /\ Identity(logout(session_state)) = Anonymous
    /\ show_user_info_sidebar(logout(session_state), TRUE) = logout(session_state)
    /\ last_op = "logout" =>
         /\ ~Authenticated(session_state)
         /\ logout(session_state) = session_state

C10_Witness ==
    /\ last_op = "logout"
    /\ ~Authenticated(session_state)
    /\ "theme" \in DOMAIN session_state

(***************************************************************************)
(* Queries: the SQL text a page hands to run_query and its bound           *)
(* parameters.  A text is the sequence of the pieces of its f-string, an   *)
(* interpolated value being one piece, so two texts are the same string    *)
(* exactly when they are the same sequence.                                *)
(***************************************************************************)
Query(sql, params) == [sql |-> sql, params |-> params]

\* one call of run_query made for a widget
Issued(widget, q) == [widget |-> widget, sql |-> q.sql, params |-> q.params]

\* utils/bigquery.py, _build_query_params: no parameters when params is empty
_build_query_params(params) ==
    IF params = EmptyDict
    THEN {}
    ELSE {<<name, params[name][1], params[name][2]>> : name \in DOMAIN params}

\* Developer page: the Analysis Window selectbox and time_map; a value is the
\* Python number as the pair <<numerator, denominator>>
TimeWindows == {"Last Hour", "Last 6 Hours", "Last 24 Hours", "Last 7 Days"}

time_map ==
    [w \in TimeWindows |->
        CASE w = "Last Hour"     -> <<1, 24>>
          [] w = "Last 6 Hours"  -> <<6, 24>>
          [] w = "Last 24 Hours" -> <<1, 1>>
          [] w = "Last 7 Days"   -> <<7, 1>>]

\* the text an f-string writes for {days}: str() of an int or of a float
str_days(days) ==
    CASE days = <<1, 24>> -> "0.041666666666666664"
      [] days = <<6, 24>> -> "0.25"
      [] days = <<1, 1>>  -> "1"
      [] days = <<7, 1>>  -> "7"

\* Developer page, the Total Requests metric
total_requests_query(days) ==
    Query(<<"SELECT COUNT(*) as count FROM backend_telemetry WHERE created_at >= TIMESTAMP_SUB(CURRENT_TIMESTAMP(), INTERVAL ",
            str_days(days), " DAY)">>,
          EmptyDict)

\* Developer page, the Request Trace Debugger
trace_query(trace_id) ==
    Query(<<"SELECT * FROM backend_telemetry WHERE trace_id = '", trace_id,
            "' ORDER BY start_timestamp">>,
          EmptyDict)

\* Developer page: the date range of the sidebar as boundary timestamps (a
\* timestamp is the number of its day, the time being midnight UTC)
posthog_params(date_range) ==
    LET start_ts == date_range[1]
        end_ts == date_range[2] + 1
    IN  DictOf(<<<<"start_ts", <<"TIMESTAMP", start_ts>>>>,
                 <<"end_ts", <<"TIMESTAMP", end_ts>>>>>>)

\* utils/posthog_analytics.py
fetch_exception_rate_trends(params) ==
    Query(<<"SELECT DATE(timestamp) AS date, ... FROM posthog.Events WHERE timestamp >= @start_ts AND timestamp < @end_ts GROUP BY date ORDER BY date DESC">>,
          params)

\* str.lower() on the texts of SearchInputs
lower(s) == IF s = "Ann" THEN "ann" ELSE s

\* " AND ".join(where_clauses), every clause being a sequence of pieces
join_and(clauses) ==
    LET RECURSIVE J(_)
        J(i) == IF i = 1 THEN clauses[1] ELSE J(i - 1) \o <<" AND ">> \o clauses[i]
    IN  J(Len(clauses))

\* Admin page, Student Analytics: the two texts of the department list
admin_departments_query(ordered) ==
    Query(IF ordered
          THEN <<"SELECT DISTINCT department FROM user WHERE department IS NOT NULL ORDER BY department">>
          ELSE <<"SELECT DISTINCT department FROM user WHERE department IS NOT NULL">>,
          EmptyDict)

\* Admin page, Student Analytics: where_clauses of the All Student Performance table
where_clauses(search_name, dept_filter) ==
    <<<<"g.final_score IS NOT NULL">>>>
    \o (IF search_name # ""
        THEN <<<<"(LOWER(u.name) LIKE '%", lower(search_name),
                 "%' OR LOWER(u.student_email) LIKE '%", lower(search_name), "%')">>>>
        ELSE <<>>)
    \o (IF dept_filter # "All"
        THEN <<<<"u.department = '", dept_filter, "'">>>>
        ELSE <<>>)

student_performance_query(search_name, dept_filter) ==
    Query(<<"SELECT u.name as student_name, ..., ROUND(AVG(g.final_score), 2) as avg_score, ... FROM grades g JOIN user u ON g.user = u.user_id WHERE ">>
          \o join_and(where_clauses(search_name, dept_filter))
          \o <<" GROUP BY u.user_id, u.name, u.student_email, u.department, u.role ORDER BY avg_score DESC">>,
          EmptyDict)

\* Admin page: Students at Risk and Top Performers
admin_at_risk_query ==
    Query(<<"SELECT u.name as student_name, ..., ROUND(AVG(g.final_score), 2) as avg_score, COUNT(*) as attempts FROM grades g JOIN user u ON g.user = u.user_id WHERE g.final_score IS NOT NULL GROUP BY u.user_id, ... HAVING avg_score < 60 ORDER BY avg_score ASC">>,
          EmptyDict)

admin_top_performers_query ==
    Query(<<"SELECT u.name as student_name, u.student_email, ROUND(AVG(g.final_score), 2) as avg_score, COUNT(*) as attempts FROM grades g JOIN user u ON g.user = u.user_id WHERE g.final_score IS NOT NULL GROUP BY u.user_id, u.name, u.student_email ORDER BY avg_score DESC LIMIT 10">>,
          EmptyDict)

\* Admin page, Overview: the Total Users metric
total_users_query ==
    Query(<<"SELECT COUNT(DISTINCT user_id) as count FROM user">>, EmptyDict)

(***************************************************************************)
(* The warehouse: rows and the meaning of the pages' aggregations           *)
(***************************************************************************)
\* SQL NULL / pandas NaN in a numeric column (every stored number is >= 0)
NULL == -1

\* final_score of the attempts of one learner, in hundredths of a point
GradeInputs ==
    {<<NULL>>, <<6000>>, <<5999, 6000, 6000>>, <<9000, NULL, 3000>>}

\* the $web_vitals events of one date
VitalsInputs ==
    {<<>>,
     <<[lcp_ms |-> 2000, inp_ms |-> 150]>>,
     <<[lcp_ms |-> 2000, inp_ms |-> NULL]>>,
     <<[lcp_ms |-> NULL, inp_ms |-> 300], [lcp_ms |-> 5000, inp_ms |-> NULL]>>}

DataInputs ==
    [grades : [1..MaxStudents -> GradeInputs], vitals : VitalsInputs]

\* the rows of the user table: learner 1 is the learner the Student account
\* is bound to
LearnerId(i) == IF i = 1 THEN USERS["student@mind.edu"].user_id ELSE StudentId(i)

DeptOf(i) ==
    IF i = 1 THEN "Computer Science" ELSE IF i = 2 THEN "Business" ELSE "Engineering"

NonNull(xs) == SelectSeq(xs, LAMBDA x : x # NULL)

RECURSIVE SUM(_)
SUM(xs) == IF xs = <<>> THEN 0 ELSE Head(xs) + SUM(Tail(xs))

\* AVG(x) < t on the exact mean (threshold t in points, values in hundredths)
AVG_lt(xs, t) == SUM(NonNull(xs)) < t * 100 * Len(NonNull(xs))

\* ROUND(AVG(x), 2), in hundredths: NULL without a non-null value, halves
\* rounded away from zero
ROUND_AVG(xs) ==
    LET ys == NonNull(xs)
    IN  IF ys = <<>> THEN NULL ELSE (2 * SUM(ys) + Len(ys)) \div (2 * Len(ys))

\* WHERE g.final_score IS NOT NULL ... GROUP BY u.user_id: the learners with a row
Graded(d) == {i \in DOMAIN d.grades : NonNull(d.grades[i]) # <<>>}

\* ROUND(AVG(g.final_score), 2) as avg_score ... GROUP BY u.user_id
avg_score(d) == [i \in Graded(d) |-> ROUND_AVG(d.grades[i])]

\* the orders in which the warehouse may hand out rows that ORDER BY leaves tied
TieOrders == Permutations(1..MaxStudents)

\* ORDER BY key [ASC|DESC]: the rows of S by key (a function on S), tied rows
\* in the order tie
OrderBy(S, key, desc, tie) ==
    LET before(x, y) ==
            \/ (IF desc THEN key[x] > key[y] ELSE key[x] < key[y])
            \/ (key[x] = key[y] /\ tie[x] < tie[y])
    IN  CHOOSE seq \in [1..Cardinality(S) -> S] :
            \A a, b \in 1..Cardinality(S) : a < b => before(seq[a], seq[b])

\* LIMIT n
Limit(seq, n) == SubSeq(seq, 1, IF Len(seq) < n THEN Len(seq) ELSE n)

\* what the warehouse answers to one submitted job
Answered(rows) == [ok |-> TRUE, rows |-> rows, message |-> None]

Rejected(message) == [ok |-> FALSE, rows |-> <<>>, message |-> message]

\* a DataFrame, and the None a failed call returns
DataFrame(rows) == [none |-> FALSE, rows |-> rows]

NoDataFrame == [none |-> TRUE, rows |-> <<>>]

\* df is not None and not df.empty
HasRows(df) == ~df.none /\ df.rows # <<>>

(***************************************************************************)
(* run_query                                                               *)
(***************************************************************************)
\* a run_query that submits a rejected job a second time before giving up
run_query_Retry(q, client, answer) ==
    IF client = None
    THEN [df |-> NoDataFrame, errors |-> <<>>, jobs |-> <<>>]
    ELSE LET job == [sql |-> q.sql, query_parameters |-> _build_query_params(q.params)]
         IN  IF answer.ok
             THEN [df |-> DataFrame(answer.rows), errors |-> <<>>, jobs |-> <<job>>]
             ELSE [df |-> NoDataFrame,
                   errors |-> <<<<"BigQuery query failed. Validate the SQL, parameters, and dataset access. Details: ",
                                  answer.message>>>>,
                   jobs |-> <<job, job>>]

\* utils/bigquery.py, run_query, on a cache miss: client = what
\* get_bigquery_client() returns, answer = what the warehouse does with the job
run_query(q, client, answer) ==
    IF client = None
    THEN [df |-> NoDataFrame, errors |-> <<>>, jobs |-> <<>>]
    ELSE LET job == [sql |-> q.sql, query_parameters |-> _build_query_params(q.params)]
         IN  IF answer.ok
             THEN [df |-> DataFrame(answer.rows), errors |-> <<>>, jobs |-> <<job>>]
             ELSE [df |-> NoDataFrame,
                   errors |-> <<<<"BigQuery query failed. Validate the SQL, parameters, and dataset access. Details: ",
                                  answer.message>>>>,
                   jobs |-> <<job>>]

\* the run_query(sql) the Admin, Faculty and Student pages define for themselves
page_run_query(q, client, answer) ==
    IF client = None
    THEN [df |-> NoDataFrame, errors |-> <<>>, jobs |-> <<>>]
    ELSE LET job == [sql |-> q.sql, query_parameters |-> {}]
         IN  IF answer.ok
             THEN [df |-> DataFrame(answer.rows), errors |-> <<>>, jobs |-> <<job>>]
             ELSE [df |-> NoDataFrame,
                   errors |-> <<<<"Query failed: ", answer.message>>>>,
                   jobs |-> <<job>>]

\* the messages of the warehouse's rejections
WarehouseErrors == {"400 Syntax error", "403 Access Denied"}

\* a run's fault: the widgets whose job the warehouse rejects, and the message
NoFault == [widgets |-> {}, message |-> None]

FaultInputs(W) ==
    {NoFault} \cup {[widgets |-> {w}, message |-> m] : w \in W, m \in WarehouseErrors}

Answer(widget, rows, fault) ==
    IF widget \in fault.widgets THEN Rejected(fault.message) ELSE Answered(rows)

\* Series.fillna(0)
fillna(v, fill) == IF v = NULL THEN fill ELSE v

(***************************************************************************)
(* The content of the Developer page                                       *)
(***************************************************************************)
\* utils/posthog_analytics.py (the columns the model follows)
fetch_web_vitals_metrics(params) ==
    Query(<<"WITH base AS (SELECT DATE(timestamp) AS date, ... WHERE event = '$web_vitals' AND timestamp >= @start_ts AND timestamp < @end_ts) SELECT date, ..., ROUND(AVG(inp_ms), 2) AS avg_inp_ms, ... FROM base GROUP BY date ORDER BY date DESC">>,
          params)

\* the rows of that query: one row per date that has an event (inp_ms is
\* held in hundredths of a millisecond)
web_vitals_rows(d) ==
    IF d.vitals = <<>>
    THEN <<>>
    ELSE <<[avg_inp_ms |-> ROUND_AVG([i \in DOMAIN d.vitals |-> d.vitals[i].inp_ms]),
            events |-> Len(d.vitals)]>>

\* the page below its gate: ss = the session after the sidebar's widgets
Developer_content(ss, time_window, date_range, client, fault, d) ==
    LET days == time_map[time_window]
        params == posthog_params(date_range)
        traced == "trace_lookup" \in DOMAIN ss
        q1 == total_requests_query(days)
        r1 == run_query(q1, client, Answer("Total Requests", <<[count |-> 1]>>, fault))
        q2 == trace_query(ss["trace_lookup"])
        r2 == run_query(q2, client, Answer("Trace Debugger", <<>>, fault))
        q3 == fetch_exception_rate_trends(params)
        r3 == run_query(q3, client, Answer("Exception Rate", <<>>, fault))
        q4 == fetch_web_vitals_metrics(params)
        r4 == run_query(q4, client, Answer("Web Vitals", web_vitals_rows(d), fault))
        none == [df |-> NoDataFrame, errors |-> <<>>, jobs |-> <<>>]
        t2 == IF traced THEN r2 ELSE none
    IN  [script  |-> "Developer",
         inputs  |-> [time_window |-> time_window, date_range |-> date_range,
                      client |-> client, fault |-> fault],
         entered |-> IF traced THEN {ss["trace_lookup"]} ELSE {},
         issued  |-> {Issued("Total Requests", q1), Issued("Exception Rate", q3),
                      Issued("Web Vitals", q4)}
                     \cup (IF traced THEN {Issued("Trace Debugger", q2)} ELSE {}),
         jobs    |-> r1.jobs \o t2.jobs \o r3.jobs \o r4.jobs,
         returned_none |-> (IF r1.df.none THEN {"Total Requests"} ELSE {})
                           \cup (IF traced /\ r2.df.none THEN {"Trace Debugger"} ELSE {})
                           \cup (IF r3.df.none THEN {"Exception Rate"} ELSE {})
                           \cup (IF r4.df.none THEN {"Web Vitals"} ELSE {}),
         errors  |-> r1.errors \o t2.errors \o r3.errors \o r4.errors,
         widgets |-> (IF HasRows(r1.df) THEN {"Total Requests"} ELSE {})
                     \cup (IF HasRows(r4.df) THEN {"Web Vitals"} ELSE {}),
         nulls   |-> IF HasRows(r4.df) /\ r4.df.rows[1].avg_inp_ms = NULL
                     THEN {"avg_inp_ms"} ELSE {},
         plotted |-> IF HasRows(r4.df)
                     THEN [avg_inp_ms |-> fillna(r4.df.rows[1].avg_inp_ms, 0)]
                     ELSE [avg_inp_ms |-> NULL],
         ended   |-> "end"]

(***************************************************************************)
(* The content of the Admin page                                           *)
(***************************************************************************)
SearchInputs == {"", "ann", "Ann", "o'brien"}

\* the text holds a quote, which ends the SQL string literal it is written into
HasQuote(s) == s = "o'brien"

NameOf(i) == IF i = 1 THEN "ann" ELSE IF i = 2 THEN "bob" ELSE "cy"

\* LOWER(u.name) LIKE '%pattern%' on the names of NameOf and the texts of SearchInputs
Like(name, pattern) == pattern = "" \/ pattern = name

\* SELECT DISTINCT department FROM user WHERE department IS NOT NULL
Departments(d) == {DeptOf(i) : i \in DOMAIN d.grades}

\* ... ORDER BY department
departments_rows(d) ==
    SelectSeq(<<"Business", "Computer Science", "Engineering">>,
              LAMBDA x : x \in Departments(d))

\* the rows of a roster: one per learner, with ROUND(AVG(g.final_score), 2)
RosterRow(d, i) ==
    [user_id |-> LearnerId(i), department |-> DeptOf(i),
     avg_score |-> ROUND_AVG(d.grades[i])]

RosterRows(d, order) == [k \in DOMAIN order |-> RosterRow(d, order[k])]

\* Students at Risk: HAVING avg_score < 60 ORDER BY avg_score ASC
admin_at_risk_rows(d, tie) ==
    RosterRows(d, OrderBy({i \in Graded(d) : ROUND_AVG(d.grades[i]) < 60 * 100},
                          avg_score(d), FALSE, tie))

\* Top Performers: ORDER BY avg_score DESC LIMIT 10
admin_top_performers_rows(d, tie) ==
    RosterRows(d, Limit(OrderBy(Graded(d), avg_score(d), TRUE, tie), 10))

\* All Student Performance: WHERE {where_clause} ... ORDER BY avg_score DESC
student_performance_rows(d, search_name, dept_filter, tie) ==
    RosterRows(d, OrderBy({i \in Graded(d) :
                             /\ Like(NameOf(i), lower(search_name))
                             /\ dept_filter \in {"All", DeptOf(i)}},
                          avg_score(d), TRUE, tie))

\* the page below its gate
Admin_content(ss, auto_refresh, search_name, dept_filter, client, fault, tie, d) ==
    LET q1 == total_users_query
        r1 == page_run_query(q1, client, Answer("Total Users", <<[count |-> 1]>>, fault))
        \* lines 583-586: the condition's query first, then the list's query
        q2 == admin_departments_query(FALSE)
        r2 == page_run_query(q2, client, Answer("departments", departments_rows(d), fault))
        q3 == admin_departments_query(TRUE)
        r3 == page_run_query(q3, client, Answer("departments ordered", departments_rows(d), fault))
        listed == ~r2.df.none
        \* None['department'] raises TypeError, which ends the run
        raised == listed /\ r3.df.none
        q4 == student_performance_query(search_name, dept_filter)
        a4 == Answer("Student Performance",
                     student_performance_rows(d, search_name, dept_filter, tie), fault)
        \* a text the quote has broken is rejected whatever else holds
        r4 == page_run_query(q4, client,
                             IF a4.ok /\ HasQuote(search_name)
                             THEN Rejected("400 Syntax error")
                             ELSE a4)
        q5 == admin_at_risk_query
        r5 == page_run_query(q5, client,
                             Answer("Students at Risk", admin_at_risk_rows(d, tie), fault))
        q6 == admin_top_performers_query
        r6 == page_run_query(q6, client,
                             Answer("Top Performers", admin_top_performers_rows(d, tie),
                                    fault))
        head == [script  |-> "Admin",
                 inputs  |-> [auto_refresh |-> auto_refresh, search_name |-> search_name,
                              dept_filter |-> dept_filter, client |-> client,
                              fault |-> fault],
                 entered |-> {search_name, lower(search_name), dept_filter} \ {"", "All"},
                 issued  |-> {Issued("Total Users", q1), Issued("departments", q2)}
                             \cup (IF listed THEN {Issued("departments ordered", q3)} ELSE {}),
                 jobs    |-> r1.jobs \o r2.jobs \o (IF listed THEN r3.jobs ELSE <<>>),
                 returned_none |-> (IF r1.df.none THEN {"Total Users"} ELSE {})
                                   \cup (IF r2.df.none THEN {"departments"} ELSE {})
                                   \cup (IF listed /\ r3.df.none
                                         THEN {"departments ordered"} ELSE {}),
                 errors  |-> r1.errors \o r2.errors \o (IF listed THEN r3.errors ELSE <<>>),
                 widgets |-> IF HasRows(r1.df) THEN {"Total Users"} ELSE {},
                 at_risk |-> <<>>,
                 top     |-> <<>>,
                 ended   |-> "exception"]
    IN  IF auto_refresh
        \* lines 162-164: st.rerun() in the sidebar, before the tabs
        THEN [head EXCEPT !.entered = {}, !.issued = {}, !.jobs = <<>>,
                          !.returned_none = {}, !.errors = <<>>, !.widgets = {},
                          !.ended = "rerun"]
        ELSE IF raised
        THEN head
        ELSE [head EXCEPT
                !.issued  = @ \cup {Issued("Student Performance", q4),
                                    Issued("Students at Risk", q5),
                                    Issued("Top Performers", q6)},
                !.jobs    = @ \o r4.jobs \o r5.jobs \o r6.jobs,
                !.returned_none = @ \cup (IF r4.df.none THEN {"Student Performance"} ELSE {})
                                    \cup (IF r5.df.none THEN {"Students at Risk"} ELSE {})
                                    \cup (IF r6.df.none THEN {"Top Performers"} ELSE {}),
                !.errors  = @ \o r4.errors \o r5.errors \o r6.errors,
                !.widgets = @ \cup (IF HasRows(r4.df) THEN {"Student Performance"} ELSE {})
                              \cup (IF HasRows(r5.df) THEN {"Students at Risk"} ELSE {})
                              \cup (IF HasRows(r6.df) THEN {"Top Performers"} ELSE {}),
                !.at_risk = r5.df.rows,
                !.top     = r6.df.rows,
                !.ended   = "end"]

(***************************************************************************)
(* The content of the Faculty page                                         *)
(***************************************************************************)
\* the At-Risk Threshold slider (0..100, 60 when untouched)
RiskInputs == {55, 60, 61}

\* line 157
dept_where(selected_dept) ==
    IF selected_dept # "All" THEN <<"AND u.department = '", selected_dept, "'">> ELSE <<>>

faculty_departments_query ==
    Query(<<"SELECT DISTINCT department FROM user WHERE department IS NOT NULL ORDER BY department">>,
          EmptyDict)

\* the At-Risk Students metric of the Overview tab
faculty_at_risk_kpi_query(selected_dept, risk_threshold) ==
    Query(<<"SELECT COUNT(DISTINCT u.user_id) as at_risk FROM grades g JOIN user u ON g.user = u.user_id WHERE g.final_score IS NOT NULL ">>
          \o dept_where(selected_dept)
          \o <<" GROUP BY u.user_id HAVING AVG(g.final_score) < ", ToString(risk_threshold)>>,
          EmptyDict)

\* Top Performing Students
faculty_top_query(selected_dept) ==
    Query(<<"SELECT u.name as student_name, u.department, ROUND(AVG(g.final_score), 2) as avg_score, COUNT(g._id) as attempts FROM grades g JOIN user u ON g.user = u.user_id WHERE g.final_score IS NOT NULL ">>
          \o dept_where(selected_dept)
          \o <<" GROUP BY u.user_id, u.name, u.department ORDER BY avg_score DESC LIMIT 10">>,
          EmptyDict)

\* the roster of the At-Risk Students tab
faculty_at_risk_query(selected_dept, risk_threshold) ==
    Query(<<"SELECT u.name as student_name, u.department, COUNT(g._id) as attempts, ROUND(AVG(g.final_score), 2) as avg_score, ... FROM grades g JOIN user u ON g.user = u.user_id WHERE g.final_score IS NOT NULL ">>
          \o dept_where(selected_dept)
          \o <<" GROUP BY u.user_id, u.name, u.department HAVING avg_score < ",
               ToString(risk_threshold), " ORDER BY avg_score ASC">>,
          EmptyDict)

\* WHERE g.final_score IS NOT NULL {dept_where} GROUP BY u.user_id
InDept(d, selected_dept) ==
    {i \in Graded(d) : selected_dept \in {"All", DeptOf(i)}}

\* HAVING AVG(g.final_score) < {risk_threshold}: one row per learner counted
faculty_at_risk_kpi_rows(d, selected_dept, risk_threshold, tie) ==
    LET S == {i \in InDept(d, selected_dept) : AVG_lt(d.grades[i], risk_threshold)}
        order == OrderBy(S, [i \in S |-> 0], FALSE, tie)
    IN  [k \in DOMAIN order |-> [at_risk |-> 1]]

faculty_top_rows(d, selected_dept, tie) ==
    RosterRows(d, Limit(OrderBy(InDept(d, selected_dept),
                                avg_score(d), TRUE, tie),
                        10))

\* HAVING avg_score < {risk_threshold} ORDER BY avg_score ASC, avg_score
\* being the alias of ROUND(AVG(g.final_score), 2)
faculty_at_risk_rows(d, selected_dept, risk_threshold, tie) ==
    RosterRows(d, OrderBy({i \in InDept(d, selected_dept) :
                             ROUND_AVG(d.grades[i]) < risk_threshold * 100},
                          avg_score(d), FALSE, tie))

\* the page below its gate
Faculty_content(ss, selected_dept, risk_threshold, client, fault, tie, d) ==
    LET q1 == faculty_departments_query
        r1 == page_run_query(q1, client, Answer("departments", departments_rows(d), fault))
        q2 == faculty_at_risk_kpi_query(selected_dept, risk_threshold)
        r2 == page_run_query(q2, client,
                             Answer("At-Risk Students",
                                    faculty_at_risk_kpi_rows(d, selected_dept,
                                                             risk_threshold, tie),
                                    fault))
        q3 == faculty_top_query(selected_dept)
        r3 == page_run_query(q3, client,
                             Answer("Top Performing Students",
                                    faculty_top_rows(d, selected_dept, tie), fault))
        q4 == faculty_at_risk_query(selected_dept, risk_threshold)
        r4 == page_run_query(q4, client,
                             Answer("At-Risk Roster",
                                    faculty_at_risk_rows(d, selected_dept, risk_threshold,
                                                         tie),
                                    fault))
    IN  [script  |-> "Faculty",
         inputs  |-> [selected_dept |-> selected_dept, risk_threshold |-> risk_threshold,
                      client |-> client, fault |-> fault],
         entered |-> {selected_dept} \ {"All"},
         issued  |-> {Issued("departments", q1), Issued("At-Risk Students", q2),
                      Issued("Top Performing Students", q3), Issued("At-Risk Roster", q4)},
         jobs    |-> r1.jobs \o r2.jobs \o r3.jobs \o r4.jobs,
         returned_none |-> (IF r1.df.none THEN {"departments"} ELSE {})
                           \cup (IF r2.df.none THEN {"At-Risk Students"} ELSE {})
                           \cup (IF r3.df.none THEN {"Top Performing Students"} ELSE {})
                           \cup (IF r4.df.none THEN {"At-Risk Roster"} ELSE {}),
         errors  |-> r1.errors \o r2.errors \o r3.errors \o r4.errors,
         widgets |-> {"At-Risk Students"}
                     \cup (IF HasRows(r3.df) THEN {"Top Performing Students"} ELSE {})
                     \cup (IF HasRows(r4.df) THEN {"At-Risk Roster"} ELSE {}),
         at_risk_kpi |-> IF HasRows(r2.df) THEN Len(r2.df.rows) ELSE 0,
         at_risk |-> r4.df.rows,
         top     |-> r3.df.rows,
         ended   |-> "end"]

(***************************************************************************)
(* The content of the Student page                                         *)
(***************************************************************************)
\* the Student Selector's list (lines 268-279)
students_query ==
    Query(<<"SELECT DISTINCT u.user_id, u.name, u.department, COUNT(g._id) as submission_count FROM user u JOIN grades g ON u.user_id = g.user WHERE g.final_score IS NOT NULL GROUP BY u.user_id, u.name, u.department ORDER BY u.name">>,
          EmptyDict)

\* lines 329-338
my_stats_query(student_user_id) ==
    Query(<<"SELECT COUNT(g._id) as total_attempts, ROUND(AVG(g.final_score), 2) as avg_score, ... FROM grades g WHERE g.user = '",
            student_user_id, "' AND g.final_score IS NOT NULL">>,
          EmptyDict)

\* lines 341-345
class_avg_query ==
    Query(<<"SELECT ROUND(AVG(final_score), 2) as class_avg FROM grades WHERE final_score IS NOT NULL">>,
          EmptyDict)

\* ORDER BY u.name: the names of NameOf are in the order of their learners
students_rows(d) ==
    LET order == SelectSeq([i \in 1..MaxStudents |-> i], LAMBDA i : i \in Graded(d))
    IN  [k \in DOMAIN order |->
            [user_id |-> LearnerId(order[k]), name |-> NameOf(order[k]),
             department |-> DeptOf(order[k]),
             submission_count |-> Len(NonNull(d.grades[order[k]]))]]

\* the attempts of the learner of that id
GradesOf(d, student_user_id) ==
    LET RECURSIVE G(_)
        G(i) == IF i = 0 THEN <<>>
                ELSE G(i - 1) \o (IF LearnerId(i) = student_user_id
                                  THEN d.grades[i] ELSE <<>>)
    IN  G(MaxStudents)

my_stats_rows(d, student_user_id) ==
    <<[user |-> student_user_id,
       total_attempts |-> Len(NonNull(GradesOf(d, student_user_id))),
       avg_score |-> ROUND_AVG(GradesOf(d, student_user_id))]>>

AllGrades(d) ==
    LET RECURSIVE G(_)
        G(i) == IF i = 0 THEN <<>> ELSE G(i - 1) \o d.grades[i]
    IN  G(MaxStudents)

class_avg_rows(d) == <<[class_avg |-> ROUND_AVG(AllGrades(d))]>>

\* the page below its gate: selected_idx = the row the Student Selector holds
\* (0 is the first row, which a selectbox holds until the user picks another)
Student_content(ss, selected_idx, client, fault, d) ==
    LET q1 == students_query
        r1 == page_run_query(q1, client, Answer("students", students_rows(d), fault))
        \* line 45, then lines 281-303
        student_user_id == IF HasRows(r1.df)
                           THEN r1.df.rows[selected_idx + 1].user_id
                           ELSE None
        q2 == my_stats_query(student_user_id)
        r2 == page_run_query(q2, client,
                             Answer("my_stats", my_stats_rows(d, student_user_id), fault))
        q3 == class_avg_query
        r3 == page_run_query(q3, client, Answer("class_avg", class_avg_rows(d), fault))
        head == [script  |-> "Student",
                 inputs  |-> [selected_idx |-> selected_idx, client |-> client,
                              fault |-> fault],
                 entered |-> {},
                 issued  |-> {Issued("students", q1)},
                 jobs    |-> r1.jobs,
                 returned_none |-> IF r1.df.none THEN {"students"} ELSE {},
                 errors  |-> r1.errors
                             \o <<<<"No student data found in database">>,
                                  <<"No student data available. Please check database connection.">>>>,
                 widgets |-> {},
                 student |-> None,
                 my_average |-> NULL,
                 ended   |-> "stop"]
    IN  IF student_user_id = None
        THEN head
        ELSE [head EXCEPT
                !.entered = {student_user_id},
                !.issued  = @ \cup {Issued("my_stats", q2), Issued("class_avg", q3)},
                !.jobs    = @ \o r2.jobs \o r3.jobs,
                !.returned_none = @ \cup (IF r2.df.none THEN {"my_stats"} ELSE {})
                                    \cup (IF r3.df.none THEN {"class_avg"} ELSE {}),
                !.errors  = r1.errors \o r2.errors \o r3.errors,
                !.widgets = {"Student Selector"}
                            \cup (IF HasRows(r2.df) /\ r2.df.rows[1].avg_score # NULL
                                  THEN {"My Average"} ELSE {}),
                !.student = student_user_id,
                !.my_average = IF HasRows(r2.df) THEN r2.df.rows[1].avg_score ELSE NULL,
                !.ended   = "end"]

(***************************************************************************)
(* Page content as a state machine: a signed-in session opens a page over  *)
(* some warehouse, and every action is one run of that page's script with  *)
(* the values its widgets hold                                             *)
(***************************************************************************)
\* the session after a successful login of an account
SignedIn(email) == login(initialize_session_state(EmptyDict), email, "mind2024").ss

DateRangeInputs == {<<1, 1>>, <<1, 2>>}

\* what a department selectbox can hold
DeptInputs == {"All", "Business", "Computer Science", "Engineering"}

ClientInputs == {"client", None}

ContentInit ==
    /\ \E email \in DOMAIN USERS : session_state = SignedIn(email)
    /\ view = NoView
    /\ cache = {}
    /\ last_login = NoLogin
    /\ last_op = "start"
    /\ data \in DataInputs
    /\ run = NoRun
    /\ process = NoProcess

\* the content specification follows the first page run of a session: a
\* run depends on the runs before it only through the trace lookup the
\* session keeps, which the run's own Lookup Trace press covers
FirstRun == run = NoRun

\* one run of the Developer page; pressed = the run was triggered by the
\* Lookup Trace button (lines 244-246)
DeveloperRun(time_window, date_range, trace_id, pressed, client, fault) ==
    /\ FirstRun
    /\ PageGate(session_state, "Developer") = "content"
    /\ LET ss == IF pressed /\ trace_id # ""
                 THEN DictPut(session_state, "trace_lookup", trace_id)
                 ELSE session_state
       IN  /\ session_state' = ss
           /\ run' = Developer_content(ss, time_window, date_range, client, fault, data)
    /\ last_op' = "developer_run"
    /\ UNCHANGED <<view, cache, last_login, data, process>>

\* one run of the Admin page; dept_filter is an option of the department
\* selectbox, which only lists departments when the list's queries return rows
AdminRun(auto_refresh, search_name, dept_filter, client, fault, tie) ==
    /\ FirstRun
    /\ PageGate(session_state, "Admin") = "content"
    \* with Auto-refresh checked the run reads none of the other inputs
    /\ auto_refresh => /\ search_name = "" /\ dept_filter = "All"
                       /\ client # None /\ fault = NoFault
                       /\ tie = [i \in 1..MaxStudents |-> i]
    /\ \/ dept_filter = "All"
       \/ /\ client # None
          /\ fault.widgets \cap {"departments", "departments ordered"} = {}
          /\ dept_filter \in Departments(data)
    /\ run' = Admin_content(session_state, auto_refresh, search_name, dept_filter, client,
                            fault, tie, data)
    /\ last_op' = "admin_run"
    /\ UNCHANGED <<session_state, view, cache, last_login, data, process>>

\* one run of the Faculty page; selected_dept is an option of the department
\* selectbox: 'All', or a department of dept_df when that query returned rows
FacultyRun(selected_dept, risk_threshold, client, fault, tie) ==
    /\ FirstRun
    /\ PageGate(session_state, "Faculty") = "content"
    /\ \/ selected_dept = "All"
       \/ /\ client # None
          /\ "departments" \notin fault.widgets
          /\ selected_dept \in Departments(data)
    /\ run' = Faculty_content(session_state, selected_dept, risk_threshold, client, fault,
                              tie, data)
    /\ last_op' = "faculty_run"
    /\ UNCHANGED <<session_state, view, cache, last_login, data, process>>

\* one run of the Student page; the selector holds a row of the list, and
\* row 0 when the list could not be read
StudentRun(selected_idx, client, fault) ==
    /\ FirstRun
    /\ PageGate(session_state, "Student") = "content"
    /\ \/ selected_idx = 0
       \/ /\ client # None
          /\ "students" \notin fault.widgets
          /\ selected_idx < Len(students_rows(data))
    /\ run' = Student_content(session_state, selected_idx, client, fault, data)
    /\ last_op' = "student_run"
    /\ UNCHANGED <<session_state, view, cache, last_login, data, process>>

DeveloperWidgets == {"Total Requests", "Trace Debugger", "Exception Rate", "Web Vitals"}

AdminWidgets ==
    {"Total Users", "departments", "departments ordered", "Student Performance",
     "Students at Risk", "Top Performers"}

FacultyWidgets ==
    {"departments", "At-Risk Students", "Top Performing Students", "At-Risk Roster"}

StudentWidgets == {"students", "my_stats", "class_avg"}

ContentNext ==
    \/ \E time_window \in TimeWindows, date_range \in DateRangeInputs,
          trace_id \in TraceInputs, pressed \in BOOLEAN, client \in ClientInputs,
          fault \in FaultInputs(DeveloperWidgets) :
            DeveloperRun(time_window, date_range, trace_id, pressed, client, fault)
    \/ \E auto_refresh \in BOOLEAN, search_name \in SearchInputs, dept_filter \in DeptInputs,
          client \in ClientInputs, fault \in FaultInputs(AdminWidgets),
          tie \in TieOrders :
            AdminRun(auto_refresh, search_name, dept_filter, client, fault, tie)
    \/ \E selected_dept \in DeptInputs,
          risk_threshold \in RiskInputs, client \in ClientInputs,
          fault \in FaultInputs(FacultyWidgets), tie \in TieOrders :
            FacultyRun(selected_dept, risk_threshold, client, fault, tie)
    \/ \E selected_idx \in 0..(MaxStudents - 1), client \in ClientInputs,
          fault \in FaultInputs(StudentWidgets) :
            StudentRun(selected_idx, client, fault)

ContentSpec == ContentInit /\ [][ContentNext]_vars

(***************************************************************************)
(* run_query on its own: every action is one call that misses the cache    *)
(***************************************************************************)
\* the queries the Developer page and utils/posthog_analytics.py hand to run_query
QueryInputs ==
    {total_requests_query(time_map[w]) : w \in TimeWindows}
    \cup {trace_query(t) : t \in TraceInputs \ {""}}
    \cup {fetch_exception_rate_trends(posthog_params(r)) : r \in DateRangeInputs}
    \cup {fetch_web_vitals_metrics(posthog_params(r)) : r \in DateRangeInputs}

\* queries the Admin, Faculty and Student pages hand to their run_query
PageQueryInputs ==
    {student_performance_query(s, dept) : s \in SearchInputs, dept \in DeptInputs}
    \cup {faculty_at_risk_query(dept, t) : dept \in DeptInputs, t \in RiskInputs}
    \cup {my_stats_query(LearnerId(i)) : i \in 1..MaxStudents}
    \cup {total_users_query, students_query, class_avg_query}

AnswerInputs ==
    {Answered(<<>>), Answered(<<[count |-> 1]>>)}
    \cup {Rejected(m) : m \in WarehouseErrors}

RunQueryCall(q, client, answer) ==
    /\ run' = [script |-> "run_query", q |-> q, client |-> client, answer |-> answer,
               result |-> run_query(q, client, answer)]
    /\ last_op' = "run_query"
    /\ UNCHANGED <<session_state, view, cache, last_login, data, process>>

PageRunQueryCall(q, client, answer) ==
    /\ run' = [script |-> "page_run_query", q |-> q, client |-> client,
               answer |-> answer, result |-> page_run_query(q, client, answer)]
    /\ last_op' = "page_run_query"
    /\ UNCHANGED <<session_state, view, cache, last_login, data, process>>

RunQueryNext ==
    \/ \E q \in QueryInputs, client \in ClientInputs, answer \in AnswerInputs :
            RunQueryCall(q, client, answer)
    \/ \E q \in PageQueryInputs, client \in ClientInputs, answer \in AnswerInputs :
            PageRunQueryCall(q, client, answer)

RunQuerySpec == Init /\ [][RunQueryNext]_vars

(***************************************************************************)
(* The caches of the process: @st.cache_resource around the client         *)
(* getters, @st.cache_data(ttl=3600) around run_query                      *)
(***************************************************************************)
\* ttl=3600, in seconds
TTL == 3600

\* the clock of the model ticks in half TTLs, up to MaxTicks ticks
MaxTicks == 2

Seconds(ticks) == ticks * 1800

\* the two cached query functions the model follows, and the client getter
\* each of them calls
CachedFunctions == {"utils.bigquery.run_query", "Admin.run_query"}

ClientGetter(fn) ==
    IF fn = "utils.bigquery.run_query" THEN "get_bigquery_client" ELSE "get_db_client"

\* the n-th bigquery.Client the process constructs
ClientName(n) == IF n = 1 THEN "client-1" ELSE "client-2"

\* @st.cache_resource: the getter's body runs on its first call only, and
\* what it returned then (a client, or None after an exception) is returned
\* by every later call
get_client(proc, getter) ==
    IF getter \in DOMAIN proc.clients
    THEN [client |-> proc.clients[getter], process |-> proc]
    ELSE LET made == IF proc.reachable THEN ClientName(proc.constructed + 1) ELSE None
         IN  [client  |-> made,
              process |-> [proc EXCEPT
                             !.clients = DictPut(@, getter, made),
                             !.constructed = IF made = None THEN @ ELSE @ + 1]]

\* an entry of the data cache that ignores the bound parameters
cache_data_lookup_TextOnly(c, fn, q, now) ==
    {e \in c : e.fn = fn /\ e.q.sql = q.sql /\ Seconds(now) - Seconds(e.stored) < TTL}

\* @st.cache_data(ttl=3600): the entries a call may be answered from; the
\* key is the function and its arguments (sql, params)
cache_data_lookup(c, fn, q, now) ==
    {e \in c : e.fn = fn /\ e.q = q /\ Seconds(now) - Seconds(e.stored) < TTL}

\* one call of a cached run_query: a hit returns the stored value (None
\* included) and replays its messages; a miss runs the body and stores
\* what it returns
cached_run_query(c, proc, fn, q) ==
    LET hits == cache_data_lookup(c, fn, q, proc.now)
    IN  IF hits # {}
        THEN [hit |-> TRUE, result |-> (CHOOSE e \in hits : TRUE).value,
              client |-> None, jobs |-> <<>>, cache |-> c, process |-> proc]
        ELSE LET g == get_client(proc, ClientGetter(fn))
                 answer == IF proc.reachable
                           THEN Answered(<<[count |-> 1]>>)
                           ELSE Rejected("503 Service Unavailable")
                 r == IF fn = "utils.bigquery.run_query"
                      THEN run_query(q, g.client, answer)
                      ELSE page_run_query(q, g.client, answer)
                 value == [df |-> r.df, errors |-> r.errors]
             IN  [hit |-> FALSE, result |-> value, client |-> g.client, jobs |-> r.jobs,
                  cache |-> {e \in c : ~(e.fn = fn /\ e.q = q)}
                            \cup {[fn |-> fn, q |-> q, value |-> value,
                                   stored |-> proc.now]},
                  process |-> g.process]

\* the queries of the cache specification: one text with two parameter
\* sets for utils.bigquery.run_query, one text for the Admin page's run_query
CachedQueryInputs(fn) ==
    IF fn = "utils.bigquery.run_query"
    THEN {fetch_exception_rate_trends(posthog_params(r)) : r \in DateRangeInputs}
    ELSE {total_users_query}

CachedCall(fn, q) ==
    LET r == cached_run_query(cache, process, fn, q)
    IN  /\ cache' = r.cache
        /\ process' = r.process
        /\ run' = [script |-> "cached_run_query", fn |-> fn, q |-> q, hit |-> r.hit,
                   result |-> r.result, client |-> r.client, jobs |-> r.jobs,
                   reachable |-> process.reachable]
        /\ last_op' = "cached_run_query"
        /\ UNCHANGED <<session_state, view, last_login, data>>

\* time passes
Tick ==
    /\ process.now < MaxTicks
    /\ process' = [process EXCEPT !.now = @ + 1]
    /\ last_op' = "tick"
    /\ UNCHANGED <<session_state, view, cache, last_login, data, run>>

\* st.cache_data.clear() (Admin page, lines 970-971)
CacheDataClear ==
    /\ cache' = {}
    /\ last_op' = "cache_data_clear"
    /\ UNCHANGED <<session_state, view, last_login, data, run, process>>

\* the credentials and the warehouse become unusable, or usable again
Outage ==
    /\ process' = [process EXCEPT !.reachable = ~@]
    /\ last_op' = "outage"
    /\ UNCHANGED <<session_state, view, cache, last_login, data, run>>

CacheNext ==
    \/ \E fn \in CachedFunctions : \E q \in CachedQueryInputs(fn) : CachedCall(fn, q)
    \/ Tick
    \/ CacheDataClear
    \/ Outage

CacheSpec == Init /\ [][CacheNext]_vars

(***************************************************************************)
(* Properties of the pages' content                                        *)
(***************************************************************************)
\* a page has run below its gate
Ran(p) == run.script = p

\* C11: every value the user entered (search text, department, learner id,
\* trace id) reaches the warehouse only as a bound parameter: no piece of the
\* text of an issued query is such a value, so the text is the same for any
\* two inputs that differ only in these values.
C11_BoundParametersOnly ==
    run.script # None =>
        \A q \in run.issued : Range(q.sql) \cap run.entered = {}

\* C12: on the Student page of a Student-role session, the learner-scoped
\* query (my_stats) filters on the learner id bound to the session identity.
C12_SessionLearnerOnly ==
    (Ran("Student") /\ get_current_user(session_state).role = STUDENT) =>
        \A q \in run.issued :
            q.widget = "my_stats" =>
                q.sql = my_stats_query(get_current_user(session_state).user_id).sql

\* C13: the rows the Faculty page shows to a Faculty caller belong to the
\* departments of the caller's identity record.
C13_FacultyScope ==
    (Ran("Faculty") /\ get_current_user(session_state).role = FACULTY) =>
        LET own == Range(get_current_user(session_state).departments)
        IN  /\ \A k \in DOMAIN run.at_risk : run.at_risk[k].department \in own
            /\ \A k \in DOMAIN run.top : run.top[k].department \in own

\* the learner of a row; identifiers ascend with the learners' numbers
LearnerIndex(user_id) == CHOOSE i \in 1..MaxStudents : LearnerId(i) = user_id

\* C14: the at-risk roster holds exactly the learners (of the selected
\* department) whose mean of non-null final scores is strictly below the
\* threshold; a learner whose mean is at or above it is not listed.
C14_AtRiskExact ==
    (Ran("Faculty") /\ "At-Risk Roster" \notin run.returned_none) =>
        {run.at_risk[k].user_id : k \in DOMAIN run.at_risk}
            = {LearnerId(i) : i \in {j \in InDept(data, run.inputs.selected_dept) :
                                       AVG_lt(data.grades[j], run.inputs.risk_threshold)}}

\* C15: the top-performers list is in descending order of the mean, learners
\* of equal mean in ascending order of their identifier (so the list is the
\* same on every call).
C15_TopPerformersOrder ==
    (Ran("Admin") /\ run.ended = "end" /\ "Top Performers" \notin run.returned_none) =>
        \A a, b \in DOMAIN run.top :
            a < b =>
                \/ run.top[a].avg_score > run.top[b].avg_score
                \/ /\ run.top[a].avg_score = run.top[b].avg_score
                   /\ LearnerIndex(run.top[a].user_id) < LearnerIndex(run.top[b].user_id)

\* C16: the time window of every query is given by bound boundary
\* timestamps: no issued text holds an interval length written from the
\* selected time range.
C16_WindowBound ==
    Ran("Developer") =>
        \A q \in run.issued :
            str_days(time_map[run.inputs.time_window]) \notin Range(q.sql)

\* C17: when the session identity has no learner id, the Student page
\* reports an error, stops, and shows no learner's data.
C17_NoDefaultLearner ==
    (Ran("Student") /\ "user_id" \notin DOMAIN get_current_user(session_state)) =>
        run.student = None /\ run.ended = "stop"

\* C18: an aggregate that is null is never shown as zero.
C18_NullNotZero ==
    (Ran("Developer") /\ "avg_inp_ms" \in run.nulls) => run.plotted.avg_inp_ms # 0

\* C19: when the warehouse rejects the job of a call of run_query, the job
\* was submitted exactly once, one error carrying the warehouse's message is
\* reported, and the call returns None.
C19_RejectedOnce ==
    (run.script \in {"run_query", "page_run_query"}
        /\ run.client # None /\ ~run.answer.ok) =>
        /\ Len(run.result.jobs) = 1
        /\ run.result.jobs[1].sql = run.q.sql
        /\ Len(run.result.errors) = 1
        /\ run.result.errors[1][Len(run.result.errors[1])] = run.answer.message
        /\ run.result.df = NoDataFrame

C19_Witness ==
    /\ run.script = "run_query"
    /\ run.client # None
    /\ run.answer = Rejected("403 Access Denied")
    /\ run.q = trace_query("trace-1")
    /\ run.result.df.none

\* C20: when one query of a page fails and the others succeed, the run
\* reaches the end of the page.
C20_PartialFailureIsolated ==
    (run.script # None /\ run.inputs.client # None /\ run.inputs.fault # NoFault) =>
        run.ended = "end"

C23_OneClient == process.constructed <= 1

\* C24: a call made while the credentials and the warehouse are usable
\* returns rows, whatever failed before.
C24_FailureNotKept ==
    (run.script = "cached_run_query" /\ run.reachable) => ~run.result.df.none

(***************************************************************************)
(* The query-backed widgets: the Admin page's, and the Faculty page's      *)
(* Individual Student tab.  A widget is named by the line of its `if`.     *)
(***************************************************************************)
\* aggregate: the query is an aggregate without GROUP BY (always one row);
\* guard: a further condition of the `if` on the row's value;
\* orelse: what the else branch shows, None when the `if` has no else
Widget(script, line, aggregate, guard, orelse) ==
    [page |-> script, line |-> line, aggregate |-> aggregate, guard |-> guard,
     orelse |-> orelse]

AdminQueryWidgets ==
    {Widget("Admin", 185, TRUE, "", "N/A"), Widget("Admin", 197, TRUE, "", "N/A"),
     Widget("Admin", 204, TRUE, "", "N/A"), Widget("Admin", 215, TRUE, "", "N/A"),
     Widget("Admin", 228, TRUE, "positive", "N/A"),
     Widget("Admin", 250, FALSE, "", "No user activity data available"),
     Widget("Admin", 273, FALSE, "", "No grade data available"),
     Widget("Admin", 291, FALSE, "", "No case study data available"),
     Widget("Admin", 336, FALSE, "", "No engagement data available"),
     Widget("Admin", 377, FALSE, "", "No growth data available"),
     Widget("Admin", 438, FALSE, "", "No weekly activity data available"),
     Widget("Admin", 477, TRUE, "", "N/A"), Widget("Admin", 488, TRUE, "", "N/A"),
     Widget("Admin", 499, TRUE, "", "N/A"), Widget("Admin", 511, TRUE, "", "N/A"),
     Widget("Admin", 536, FALSE, "", "No department data available"),
     Widget("Admin", 564, FALSE, "", "No role data available"),
     Widget("Admin", 615, FALSE, "", "No student performance data available"),
     Widget("Admin", 642, TRUE, "", None),
     Widget("Admin", 669, FALSE, "", "No score data available"),
     Widget("Admin", 763, FALSE, "", "No students at risk!"),
     Widget("Admin", 786, FALSE, "", "No performance data available"),
     Widget("Admin", 810, TRUE, "notna", "N/A"),
     Widget("Admin", 849, FALSE, "", "No AI model data available"),
     Widget("Admin", 875, TRUE, "", None),
     Widget("Admin", 895, TRUE, "positive", "No uptime data available"),
     Widget("Admin", 917, FALSE, "", "No route performance data available"),
     Widget("Admin", 939, FALSE, "", "No recent errors!")}

FacultyStudentWidgets ==
    {Widget("Faculty", 663, FALSE, "", "No students found"),
     Widget("Faculty", 683, TRUE, "", None),
     Widget("Faculty", 708, FALSE, "", "No submission history for this student")}

QueryWidgets == AdminQueryWidgets \cup FacultyStudentWidgets

\* the answers of the warehouse to a widget's query; a row is cut down to
\* the one value the widget's guard reads
WidgetAnswers ==
    {Answered(<<>>)} \cup {Answered(<<[value |-> v]>>) : v \in {NULL, 0, 5}}
    \cup {Rejected(m) : m \in WarehouseErrors}

\* what the warehouse can answer to the widget's query: an aggregate
\* without GROUP BY yields exactly one row, and a COUNT is never NULL
CanAnswer(w, answer) ==
    (answer.ok /\ w.aggregate) =>
        /\ Len(answer.rows) = 1
        /\ w.guard = "positive" => answer.rows[1].value # NULL

\* get_db_client's st.error, shown again by every call that returns the
\* cached None
get_db_client_errors(client) ==
    IF client = None THEN <<<<"Database connection failed: ", "credentials">>>> ELSE <<>>

\* the `if` of the widget
widget_condition(w, df) ==
    /\ HasRows(df)
    /\ w.guard = "positive" => df.rows[1].value > 0
    /\ w.guard = "notna" => df.rows[1].value # NULL

\* a widget whose failures leave no message
render_widget_Silent(w, client, answer) ==
    LET r == page_run_query(Query(<<w.page, w.line>>, EmptyDict), client, answer)
    IN  IF widget_condition(w, r.df) THEN <<"content">>
        ELSE IF w.orelse # None THEN <<w.orelse>> ELSE <<>>

\* everything the widget puts on the page, in order: the messages of the
\* client getter and of run_query, then the widget's content or its else
render_widget(w, client, answer) ==
    LET r == page_run_query(Query(<<w.page, w.line>>, EmptyDict), client, answer)
    IN  get_db_client_errors(client) \o r.errors
        \o (IF widget_condition(w, r.df) THEN <<"content">>
            ELSE IF w.orelse # None THEN <<w.orelse>> ELSE <<>>)

RenderWidget(w, client, answer) ==
    /\ CanAnswer(w, answer)
    /\ run' = [script |-> "widget", widget |-> w, client |-> client, answer |-> answer,
               rendered |-> render_widget(w, client, answer)]
    /\ last_op' = "render_widget"
    /\ UNCHANGED <<session_state, view, cache, last_login, data, process>>

WidgetNext ==
    \E w \in QueryWidgets, client \in ClientInputs, answer \in WidgetAnswers :
        RenderWidget(w, client, answer)

WidgetSpec == Init /\ [][WidgetNext]_vars

C25_AdminReachesEnd ==
    Ran("Admin") => run.ended = "end"

\* the Analysis Window's day count n/d is a whole number
Whole(days) == days[1] % days[2] = 0

\* C26: the day count a run of the Developer page writes after INTERVAL is
\* a whole number, whatever Analysis Window was chosen.
C26_WholeDays ==
    Ran("Developer") => Whole(time_map[run.inputs.time_window])

\* C27: the At-Risk Students KPI shows as many learners as the At-Risk
\* roster lists, for the same data, department and threshold.
C27_KpiEqualsRoster ==
    (Ran("Faculty") /\ run.returned_none = {}) => run.at_risk_kpi = Len(run.at_risk)

(***************************************************************************)
(* The ratios of the pages and of their queries                            *)
(***************************************************************************)
\* the largest count of the metric specification (requests, tokens, rows)
MaxRequests == 3

\* one division the program or the warehouse carries out
Division(num, den) == [num |-> num, den |-> den]

\* what a metric shows and the divisions made for it; "N/A" and NULL are
\* both written NULL
Metric(shown, divisions) == [shown |-> shown, divisions |-> divisions]

\* an error rate computed without looking at the denominator
error_rate_Unguarded(error_count, total_requests) ==
    Metric(IF total_requests = 0 THEN NULL ELSE (error_count * 100) \div total_requests,
           <<Division(error_count, total_requests)>>)

\* Admin lines 228-232
error_rate(error_count, total_requests) ==
    IF total_requests > 0
    THEN Metric((error_count * 100) \div total_requests,
                <<Division(error_count, total_requests)>>)
    ELSE Metric(NULL, <<>>)

\* Admin lines 895-901
uptime(error_count, total_requests) ==
    IF total_requests > 0
    THEN Metric(((total_requests - error_count) * 100) \div total_requests,
                <<Division(total_requests - error_count, total_requests)>>)
    ELSE Metric(NULL, <<>>)

\* Developer lines 289-293
success_rate(errors, total) ==
    IF total > 0
    THEN Metric(((total - errors) * 100) \div total, <<Division(total - errors, total)>>)
    ELSE Metric(NULL, <<>>)

\* Developer line 620: output_tok / input_tok if input_tok > 0 else 0
ratio(output_tok, input_tok) ==
    IF input_tok > 0
    THEN Metric(output_tok \div input_tok, <<Division(output_tok, input_tok)>>)
    ELSE Metric(0, <<>>)

\* the rows of a telemetry table: a group key (hour, department, date)
\* and whether the row counts for the numerator
TelemetryRows == [key : {1, 2}, counted : BOOLEAN]

TelemetryInputs == UNION {[1..n -> TelemetryRows] : n \in 0..MaxRequests}

COUNT(rows) == Len(rows)

COUNTIF(rows) == Len(SelectSeq(rows, LAMBDA r : r.counted))

\* SAFE_DIVIDE(x, y): NULL when y is 0, no division then
SAFE_DIVIDE(x, y) ==
    IF y = 0 THEN Metric(NULL, <<>>) ELSE Metric((x * 100) \div y, <<Division(x, y)>>)

\* COUNTIF(...) / COUNT(*) under GROUP BY (Developer line 444, Faculty line
\* 397): one division for each key that has rows
group_ratio(rows) ==
    LET keys == {rows[i].key : i \in DOMAIN rows}
        of(k) == SelectSeq(rows, LAMBDA r : r.key = k)
        div(k) == Division(COUNTIF(of(k)), COUNT(of(k)))
    IN  Metric(NULL,
               (IF 1 \in keys THEN <<div(1)>> ELSE <<>>)
               \o (IF 2 \in keys THEN <<div(2)>> ELSE <<>>))

\* SAFE_DIVIDE(COUNTIF(...), COUNT(*)) without GROUP BY (Student line 363):
\* one row whatever the table holds
safe_ratio(rows) == SAFE_DIVIDE(COUNTIF(rows), COUNT(rows))

PageMetrics == {"error_rate", "uptime", "success_rate", "ratio"}

MetricRun(name, x, y) ==
    /\ (name # "ratio") => x <= y
    /\ run' = [script |-> "metric", metric |-> name, inputs |-> <<x, y>>,
               result |-> CASE name = "error_rate" -> error_rate(x, y)
                            [] name = "uptime" -> uptime(x, y)
                            [] name = "success_rate" -> success_rate(x, y)
                            [] name = "ratio" -> ratio(x, y)]
    /\ last_op' = "metric_run"
    /\ UNCHANGED <<session_state, view, cache, last_login, data, process>>

QueryRatioRun(name, rows) ==
    /\ Len(rows) <= MaxRequests
    /\ run' = [script |-> "metric", metric |-> name, inputs |-> rows,
               result |-> IF name = "group_ratio" THEN group_ratio(rows)
                          ELSE safe_ratio(rows)]
    /\ last_op' = "query_ratio_run"
    /\ UNCHANGED <<session_state, view, cache, last_login, data, process>>

MetricsNext ==
    \/ \E name \in PageMetrics, x \in 0..MaxRequests, y \in 0..MaxRequests :
            MetricRun(name, x, y)
    \/ \E name \in {"group_ratio", "safe_ratio"}, rows \in TelemetryInputs :
            QueryRatioRun(name, rows)

MetricsSpec == Init /\ [][MetricsNext]_vars

\* C28: every division made for a metric, by the page or by the warehouse,
\* has a denominator above zero; with a zero denominator no division is made.
C28_NoDivisionByZero ==
    run.script = "metric" =>
        \A i \in DOMAIN run.result.divisions : run.result.divisions[i].den > 0

C28_Witness ==
    /\ run.script = "metric"
    /\ run.metric = "error_rate"
    /\ run.inputs[2] = 0
    /\ run.result.divisions = <<>>

(***************************************************************************)
(* The Student page's activity pattern and Current Streak                  *)
(***************************************************************************)
\* days are numbered 0..MaxDays; the last one is today, and the activity
\* query's window of 30 days is cut down to these
MaxDays == 6

today == MaxDays

\* the activity query: one row for each date with a submission, ORDER BY date
activity_rows(dates) ==
    [i \in 1..Cardinality(dates) |->
        CHOOSE d \in dates : Cardinality({e \in dates : e < d}) = i - 1]

\* activity.sort_values('date', ascending=False)
sort_values_descending(rows) == SortSeq(rows, LAMBDA a, b : a > b)

\* a streak that is the number of active days
calculate_streak_ActiveDays(rows, now) == Len(rows)

RECURSIVE streak_loop(_, _, _, _)
\* lines 931-936: for each row, newest first: one more day if the row's date
\* is now - streak, else stop
streak_loop(rows, i, streak, now) ==
    IF i > Len(rows) THEN streak
    ELSE IF rows[i] = now - streak
         THEN streak_loop(rows, i + 1, streak + 1, now)
         ELSE streak

\* lines 927-936
calculate_streak(rows, now) == streak_loop(sort_values_descending(rows), 1, 0, now)

\* the Activity Pattern section of one run, for the learner's submission dates
ActivityRun(dates) ==
    LET activity == DataFrame(activity_rows(dates))
    IN  /\ run' = [script |-> "activity", dates |-> dates,
                   streak |-> IF HasRows(activity)
                              THEN calculate_streak(activity.rows, today)
                              ELSE NULL,
                   info |-> IF HasRows(activity) THEN None
                            ELSE "Start studying to build your activity streak!"]
        /\ last_op' = "activity_run"
        /\ UNCHANGED <<session_state, view, cache, last_login, data, process>>

ActivityNext == \E dates \in SUBSET (0..MaxDays) : ActivityRun(dates)

ActivitySpec == Init /\ [][ActivityNext]_vars

\* the number of consecutive days, counted back from day `now` and including
\* it, that all are in dates
ConsecutiveDays(dates, now) ==
    CHOOSE n \in 0..(now + 1) :
        /\ \A k \in 0..(n - 1) : (now - k) \in dates
        /\ (now - n) \notin dates

MaxEvents == 2

WebVitals == {"LCP", "FCP", "INP", "CLS"}

\* the two limits of each metric's COUNTIF conditions, in milliseconds (LCP,
\* FCP: lcp_ms / 1000 <= 2.5 is lcp_ms <= 2500), and for CLS in thousandths
Thresholds(metric) ==
    CASE metric = "LCP" -> <<2500, 4000>>
      [] metric = "FCP" -> <<1800, 3000>>
      [] metric = "INP" -> <<200, 500>>
      [] metric = "CLS" -> <<100, 250>>

\* a comparison with NULL is NULL, which COUNTIF does not count
good(metric, v) == v # NULL /\ v <= Thresholds(metric)[1]

\* a middle band that takes the lower limit in as well
needs_improvement_Overlap(metric, v) ==
    v # NULL /\ v >= Thresholds(metric)[1] /\ v <= Thresholds(metric)[2]

needs_improvement(metric, v) ==
    v # NULL /\ v > Thresholds(metric)[1] /\ v <= Thresholds(metric)[2]

poor(metric, v) == v # NULL /\ v > Thresholds(metric)[2]

\* the values an event can carry for the metric: none, and the values at
\* and just above each limit
VitalValues(metric) ==
    {NULL, Thresholds(metric)[1], Thresholds(metric)[1] + 1,
     Thresholds(metric)[2], Thresholds(metric)[2] + 1}

VitalDates == {1, 2}

\* SELECT date, COUNTIF(...) ... FROM base GROUP BY date: one row for each
\* date that has an event
vitals_counters(metric, events) ==
    LET of(d) == SelectSeq(events, LAMBDA e : e.date = d)
        row(d) == [date |-> d,
                   good |-> Len(SelectSeq(of(d), LAMBDA e : good(metric, e.value))),
                   needs_improvement |->
                       Len(SelectSeq(of(d), LAMBDA e : needs_improvement(metric, e.value))),
                   poor |-> Len(SelectSeq(of(d), LAMBDA e : poor(metric, e.value)))]
    IN  {row(d) : d \in {events[i].date : i \in DOMAIN events}}

VitalsRun(metric, events) ==
    /\ FirstRun
    /\ Len(events) <= MaxEvents
    /\ \A i \in DOMAIN events : events[i].value \in VitalValues(metric)
    /\ run' = [script |-> "web_vitals", metric |-> metric, events |-> events,
               rows |-> vitals_counters(metric, events)]
    /\ last_op' = "vitals_run"
    /\ UNCHANGED <<session_state, view, cache, last_login, data, process>>

VitalEvents ==
    [date : VitalDates, value : UNION {VitalValues(metric) : metric \in WebVitals}]

VitalsNext ==
    \E metric \in WebVitals,
       events \in UNION {[1..n -> VitalEvents] : n \in 0..MaxEvents} :
        VitalsRun(metric, events)

VitalsSpec == Init /\ [][VitalsNext]_vars

\* C30: for each metric and date, the good, needs-improvement and poor
\* counters add up to the number of events of that date with a non-null
\* value, and there is a row for every date that has an event.
C30_CountersPartition ==
    run.script = "web_vitals" =>
        /\ \A i \in DOMAIN run.events : \E r \in run.rows : r.date = run.events[i].date
        /\ \A r \in run.rows :
              r.good + r.needs_improvement + r.poor
                = Cardinality({i \in DOMAIN run.events :
                                  /\ run.events[i].date = r.date
                                  /\ run.events[i].value # NULL})

C30_Witness ==
    /\ run.script = "web_vitals"
    /\ run.metric = "LCP"
    /\ \E r \in run.rows : r.good = 1 /\ r.needs_improvement = 1 /\ r.poor = 0
    /\ Len(run.events) = 2

====
